---- MODULE Spec2Model ----
(***************************************************************************)
(* A model of guv's cooperative I/O layer: the green socket wrapper and    *)
(* its connect/accept helpers (guv/greenio.py), the descriptor duck-socket *)
(* (guv/greenio.py) and the per-thread hub registry (guv/hubs/hub.py).     *)
(*                                                                         *)
(* One cooperative task drives a wrapper.  An action is the code that runs *)
(* between two suspension points: a call runs from its entry up to its     *)
(* first suspension (or its end), a wake-up runs from the return of the    *)
(* suspend primitive up to the next suspension (or the end of the call).   *)
(* The operating system, the hub and the clock are the environment: their  *)
(* answers are drawn with \E.                                              *)
(***************************************************************************)
EXTENDS Integers, Sequences, FiniteSets, TLC

\* ------------------------------------------------------------------ bounds
\* OS calls one green socket call may issue before the OS must stop answering
\* "would block" / "partially sent".
MaxAttempts == 3
\* Longest buffer handed to send.
MaxLen == 2
\* Largest finite logical timeout.
MaxT == 1
\* Latest clock reading at which a green socket call may start.
MaxStart == 1
\* The clock stops advancing here.
MaxClock == MaxStart + MaxT + 1

\* ------------------------------------------------------------ option values
\* Python's None is the empty tuple, a present value x is <<x>>.
None == <<>>
Some(x) == <<x>>

\* ------------------------------------------------------------------ errnos
\* errno values by name.  On POSIX EWOULDBLOCK and EAGAIN are one number.
EAGAIN == "EAGAIN"
EWOULDBLOCK == EAGAIN
ENOTCONN == "ENOTCONN"
ECONNRESET == "ECONNRESET"
ESHUTDOWN == "ESHUTDOWN"
EPIPE == "EPIPE"
EINPROGRESS == "EINPROGRESS"
EALREADY == "EALREADY"
EISCONN == "EISCONN"
EBADFD == "EBADFD"
EBADF == "EBADF"
\* One errno that is in none of the classification sets.
ECONNREFUSED == "ECONNREFUSED"
\* The errno value 0.
ENONE == "0"

CONNECT_ERR == {EINPROGRESS, EALREADY, EWOULDBLOCK}
CONNECT_SUCCESS == {ENONE, EISCONN}
\* The POSIX branch of the platform split.
SOCKET_BLOCKING == {EAGAIN, EWOULDBLOCK, ENOTCONN}
SOCKET_CLOSED_win == {ECONNRESET, ENOTCONN, ESHUTDOWN}
SOCKET_CLOSED == {ECONNRESET, ESHUTDOWN, EPIPE}

\* ------------------------------------------------------- results of a call
NoResult == [kind |-> "none", exc |-> "", val |-> "", n |-> 0]
Return(v, k) == [kind |-> "return", exc |-> "", val |-> v, n |-> k]
Raise(e, v) == [kind |-> "raise", exc |-> e, val |-> v, n |-> 0]

\* What a loop iteration leads to: the end of the call, or a suspension with
\* the timeout it passes to _trampoline.
Fin(res, c) == [next |-> "done", result |-> res, call |-> c, tmo |-> None]
Susp(c, tmo) == [next |-> "trampoline", result |-> NoResult, call |-> c, tmo |-> tmo]

VARIABLES
  \* GreenSocket
  act_non_blocking,  \* self.act_non_blocking
  timeout,           \* self._timeout: None or Some(duration)
  sock_closed,       \* self._closed
  pc,                \* "idle" | "suspended": where the task driving the wrapper is
  call,              \* the locals of the call in progress (or of the last call),
                     \* with the clock, timeout and _closed it started with
  result,            \* how the last call ended
  tramp,             \* the timeout the pending suspension was requested with
  now,               \* time.time()
  obs,               \* what the OS and the hub were asked during the call (counts)
  sock_log,          \* makefile(), close() of its files, close() and what it called
  newsock,           \* the mode of the wrapper the last dup() returned, or None
  \* _SocketDuckForFd
  duck_refcount,     \* self._refcount
  duck_closed,       \* self._closed
  duck_alive,        \* FALSE once __del__ has run
  duck_made,         \* "no" | "half" (__init__ raised in notify_opened) | "yes"
  duck_log,          \* the calls made to the hub and the OS for the descriptor
  duck_hist,         \* the methods called on the object so far
  duck_oserr,        \* how the OS answered the last os.close
  duck_pc,           \* "idle" | "suspended": the task in recv, send or sendall
  duck_call,         \* the locals of the I/O call in progress (or of the last)
  duck_result,       \* how the last call of a method ended
  duck_obs,          \* what the call asked of the OS and the hub (counts)
  \* hub registry, per thread
  tl_Hub,            \* _threadlocal.Hub
  tl_hub,            \* _threadlocal.hub
  importable,        \* the backends importlib can import
  created,           \* how many hub objects have been constructed
  ret,               \* what each thread's last registry call gave
  sel,               \* the argument of each thread's last use_hub call
  ncalls,            \* how many registry calls each thread has made
  \* GreenPipe on a seekable file
  gp_pos,            \* the OS file position of the descriptor
  gp_size,           \* the length of the file
  gp_rbuf,           \* self._rbuf: None while the attribute is not set
  gp_closed,         \* self.closed
  gp_stubs,          \* the method names close() has set on the instance
  gp_ret,            \* the last call: its name, result and OS calls
  gp_made,           \* "no" | "half" (__init__ raised) | "yes" | "gone" (collected)
  \* shutdown_safe(sock)
  sh_first,          \* how sock.shutdown(SHUT_RDWR) answers
  sh_second,         \* how sock.shutdown() answers
  sh_calls,          \* the forms of shutdown called
  sh_res             \* how shutdown_safe ended

sockVars == <<act_non_blocking, timeout, sock_closed, pc, call, result, tramp, now, obs,
              sock_log, newsock>>
duckVars == <<duck_refcount, duck_closed, duck_alive, duck_made, duck_log, duck_hist,
              duck_oserr, duck_pc, duck_call, duck_result, duck_obs>>
hubVars == <<tl_Hub, tl_hub, importable, created, ret, sel, ncalls>>
pipeVars == <<gp_pos, gp_size, gp_rbuf, gp_closed, gp_stubs, gp_ret, gp_made>>
shutVars == <<sh_first, sh_second, sh_calls, sh_res>>

vars == <<act_non_blocking, timeout, sock_closed, pc, call, result, tramp, now, obs,
          sock_log, newsock,
          duck_refcount, duck_closed, duck_alive, duck_made, duck_log, duck_hist,
          duck_oserr, duck_pc, duck_call, duck_result, duck_obs,
          tl_Hub, tl_hub, importable, created, ret, sel, ncalls,
          gp_pos, gp_size, gp_rbuf, gp_closed, gp_stubs, gp_ret, gp_made,
          sh_first, sh_second, sh_calls, sh_res>>

SockOps == {"recv", "send", "connect", "connect_ex", "accept",
            "sendall", "sendto", "recvfrom", "recvfrom_into", "recv_into"}
ConnectOps == {"connect", "connect_ex"}
\* recvfrom, recvfrom_into, recv_into and sendto wait first and then make
\* their one OS call.
WaitFirstOps == {"recvfrom", "recvfrom_into", "recv_into", "sendto"}
\* The operations that are given a buffer to send.
BufferOps == {"send", "sendall", "sendto"}

NoCall == [op |-> "none", arg |-> <<>>, nb |-> FALSE, total_sent |-> 0, len_data |-> 0,
           mv |-> 0, end |-> None, start |-> 0, T |-> None, closed |-> FALSE]
NoObs == [nOs |-> 0, nSusp |-> 0, nWB |-> 0, nPart |-> 0, bytes |-> 0, last |-> ""]

\* ------------------------------------------------- low-level helpers (4.2)
\* socket_connect: err is what sock.connect_ex(address) returned.
socket_connect(err) ==
  IF err \in CONNECT_ERR THEN [t |-> "None", errno |-> ""]
  ELSE IF err \notin CONNECT_SUCCESS THEN [t |-> "raise", errno |-> err]
  ELSE [t |-> "sock", errno |-> ""]

\* socket_checkerr: err is what getsockopt(SOL_SOCKET, SO_ERROR) returned.
socket_checkerr(err) ==
  IF err \notin CONNECT_SUCCESS THEN [t |-> "raise", errno |-> err]
  ELSE [t |-> "ok", errno |-> ""]

\* socket_accept: r is the answer of sock.accept().
socket_accept(r) ==
  IF r.err = ENONE THEN [t |-> "client", errno |-> ""]
  ELSE IF r.err = EWOULDBLOCK THEN [t |-> "None", errno |-> ""]
  ELSE [t |-> "raise", errno |-> r.err]

\* ------------------------------------------------------ GreenSocket: modes
\* setblocking(flag): the new (act_non_blocking, _timeout).
setblocking(flag) ==
  IF flag THEN [act_non_blocking |-> FALSE, timeout |-> None]
  ELSE [act_non_blocking |-> TRUE, timeout |-> Some(0)]

\* An argument of settimeout that has no __float__: the string "abc".
NotANumber == <<"a", "b", "c">>

\* try: f = howlong.__float__
HasFloat(howlong) == howlong # NotANumber

\* if howlong < 0.0: raise ValueError
NothingOutOfRange(d) == FALSE
OutOfRange(d) == d < 0

\* settimeout(howlong) on a socket whose (act_non_blocking, _timeout) is cur:
\* the new mode and how the call ends.
settimeout(cur, howlong) ==
  LET ok(m) == [act_non_blocking |-> m.act_non_blocking, timeout |-> m.timeout,
                res |-> Return("None", 0)]
      fail(r) == [act_non_blocking |-> cur.act_non_blocking, timeout |-> cur.timeout,
                  res |-> r]
  IN IF howlong = None THEN ok(setblocking(TRUE))
     ELSE IF ~HasFloat(howlong) THEN fail(Raise("TypeError", "a float is required"))
     ELSE IF OutOfRange(howlong[1]) THEN fail(Raise("ValueError", "Timeout value out of range"))
     ELSE IF howlong[1] = 0 THEN ok([act_non_blocking |-> TRUE, timeout |-> Some(0)])
     ELSE ok([act_non_blocking |-> FALSE, timeout |-> howlong])

\* gettimeout()
NoTimeout(tmo) == None
gettimeout(tmo) == tmo

\* Python's "a or b" on two timeouts: None and 0.0 are false.
Or(a, b) == IF a = None \/ a = Some(0) THEN b ELSE a

\* The timeouts an OS socket or the process default can have.
Timeouts == {None} \cup {Some(d) : d \in 0..MaxT}

\* GreenSocket.__init__: the (act_non_blocking, _timeout) of the new wrapper.
\* how is "family" (a fresh OS socket, which takes the default timeout dt)
\* or "adopt" (an existing socket whose gettimeout() is st).
GreenSocketInit(how, st, dt) ==
  [act_non_blocking |-> FALSE,
   timeout |-> Or(IF how = "family" THEN dt ELSE st, dt)]

\* dup(): the mode of the wrapper it returns, made from the duplicated OS
\* socket and then given this wrapper's timeout with settimeout.
dup(T, st, dt) == settimeout(GreenSocketInit("adopt", st, dt), gettimeout(T))

Count(log, x) == Cardinality({i \in 1..Len(log) : log[i] = x})

\* self.sock._io_refs: the files made by makefile() that are still open.
io_refs(log) == Count(log, "makefile") - Count(log, "file.close")

\* self.close = sock.close: what close() adds to the calls made for the
\* descriptor.  The OS socket's close releases the descriptor (_real_close)
\* only when no file of makefile() is open.
sock_close(log) ==
  IF io_refs(log) <= 0 THEN log \o <<"sock.close", "_real_close">>
  ELSE Append(log, "sock.close")

\* The descriptor has been released.
Released == \E i \in 1..Len(sock_log) : sock_log[i] = "_real_close"

\* An operation whose wait ends with readiness after the descriptor was
\* released: its OS call (for connect and connect_ex, getsockopt) fails
\* with EBADF.
OnReleased(o) ==
  IF o = "connect_ex" THEN Return(EBADF, 0) ELSE Raise("socket.error", EBADF)

\* The test every operation starts with: delegate to the OS socket directly?
DirectWhenFlagExceptAccept(o, nb) == nb /\ o # "accept"
UsesDirectCall(o, nb) == nb /\ o # "sendto"

\* -------------------------------------------- GreenSocket: the direct calls
\* act_non_blocking is set: one OS call, its answer handed back as it is.
DirectCall(o, r) ==
  CASE o = "recv" -> IF r.err = ENONE THEN Return("data", r.n)
                     ELSE Raise("socket.error", r.err)
    [] o = "send" -> IF r.err = ENONE THEN Return("sent", r.n)
                     ELSE Raise("socket.error", r.err)
    [] o = "connect" -> IF r.err = ENONE THEN Return("None", 0)
                        ELSE Raise("socket.error", r.err)
    [] o = "connect_ex" -> Return(r.err, 0)
    [] o = "accept" -> IF r.err = ENONE THEN Return("socket", 0)
                       ELSE Raise("socket.error", r.err)
    [] o \in {"recvfrom", "recvfrom_into", "recv_into"} ->
                       IF r.err = ENONE THEN Return("data", r.n)
                       ELSE Raise("socket.error", r.err)
    [] o = "sendto" -> IF r.err = ENONE THEN Return("sent", r.n)
                       ELSE Raise("socket.error", r.err)

\* ------------------------------------- GreenSocket: one turn of each loop
\* c: the call's locals, r: the OS's answer to this turn's call, T: the
\* logical timeout, t1 and t2: the clock readings this turn takes.

\* recv, lines 300-312 (up to the call of _trampoline)
recv_iter(c, r, T) ==
  IF r.err = ENONE THEN Fin(Return("data", r.n), c)
  ELSE IF r.err \in SOCKET_BLOCKING THEN Susp(c, gettimeout(T))
  ELSE IF r.err \in SOCKET_CLOSED THEN Fin(Return("data", 0), c)
  ELSE Fin(Raise("socket.error", r.err), c)

\* _old_send: is the loop over once total_sent bytes are out?
SendAnyProgress(total_sent, len_data) == total_sent > 0 \/ total_sent = len_data
SendComplete(total_sent, len_data) == total_sent = len_data

\* _old_send, lines 344-356
old_send_iter(c, r, T) ==
  IF r.err # ENONE /\ r.err \notin SOCKET_BLOCKING
  THEN Fin(Raise("socket.error", r.err), c)
  ELSE LET total == IF r.err = ENONE THEN c.total_sent + r.n ELSE c.total_sent
           c1 == [c EXCEPT !.total_sent = total]
       IN IF SendComplete(total, c.len_data)
          THEN Fin(Return("sent", total), c1)
          ELSE Susp(c1, gettimeout(T))

\* accept, lines 211-218
accept_iter(c, r, T) ==
  LET a == socket_accept(r)
  IN IF a.t = "client" THEN Fin(Return("GreenSocket", 0), c)
     ELSE IF a.t = "raise" THEN Fin(Raise("socket.error", a.errno), c)
     ELSE Susp(c, gettimeout(T))

\* connect with a timeout: end = time.time() + self.gettimeout()
DeadlineWithoutStart(t, T) == T
Deadline(t, T) == t + T

\* connect, lines 235-251
connect_iter(c, r, t1, t2) ==
  LET s == socket_connect(r.err)
  IN IF s.t = "raise" THEN Fin(Raise("socket.error", s.errno), c)
     ELSE IF s.t = "sock" THEN Fin(Return("None", 0), c)
     ELSE IF c.end = None THEN Susp(c, None)
     ELSE IF t1 >= c.end[1] THEN Fin(Raise("socket.timeout", "timed out"), c)
     ELSE Susp(c, Some(c.end[1] - t2))

\* connect_ex, lines 262-280.  With no timeout socket_connect is called in
\* the loop's condition, outside the try; with a timeout inside it.
connect_ex_iter(c, r, t1, t2) ==
  LET s == socket_connect(r.err)
  IN IF c.end = None
     THEN IF s.t = "raise" THEN Fin(Raise("socket.error", s.errno), c)
          ELSE IF s.t = "sock" THEN Fin(Return("None", 0), c)
          ELSE Susp(c, None)
     ELSE IF s.t = "raise" THEN Fin(Return(s.errno, 0), c)
          ELSE IF s.t = "sock" THEN Fin(Return(ENONE, 0), c)
          ELSE IF t1 >= c.end[1] THEN Fin(Return(EAGAIN, 0), c)
          ELSE Susp(c, Some(c.end[1] - t2))

Iter(c, r, T, t1, t2) ==
  CASE c.op = "recv" -> recv_iter(c, r, T)
    [] c.op = "send" -> old_send_iter(c, r, T)
    [] c.op = "accept" -> accept_iter(c, r, T)
    [] c.op = "connect" -> connect_iter(c, r, t1, t2)
    [] c.op = "connect_ex" -> connect_ex_iter(c, r, t1, t2)

\* How each operation hands on the IOClosed that _trampoline raised.  IOClosed
\* is an IOError, which is what socket.error names: in connect_ex the clause
\* "except socket.error as ex: return get_errno(ex)" comes first and catches
\* it, the IOClosed has no errno, and "except IOClosed" is never reached.
OnClosed(o) ==
  CASE o = "recv" -> Raise("EOFError", "")
    [] o = "send" -> Raise("socket.error", ECONNRESET)
    [] o = "connect" -> Raise("socket.error", EBADFD)
    [] o = "connect_ex" -> Return("None", 0)
    [] o = "accept" -> Raise("IOClosed", "")
    [] o = "sendall" -> Raise("socket.error", ECONNRESET)
    [] o \in WaitFirstOps -> Raise("IOClosed", "")

\* How each operation hands on the timeout_exc that the suspension raised.
OnTimeout(o) ==
  IF o = "connect_ex" THEN Return(EAGAIN, 0)
  ELSE Raise("socket.timeout", "timed out")

\* connect and connect_ex after a wait: socket_checkerr(sock), e is SO_ERROR.
AfterWait(o, e) ==
  LET k == socket_checkerr(e)
  IN IF k.t = "ok" THEN NoResult
     ELSE IF o = "connect" THEN Raise("socket.error", k.errno)
     ELSE Return(k.errno, 0)

\* GreenSocket._trampoline, lines 196-199: a closed wrapper raises IOClosed
\* itself and does not call the hub's trampoline.
TrampolineAlways(closedFlag) == TRUE
CallsHub(closedFlag) == ~closedFlag

\* ------------------------------------------------------- the environment
\* The answers the OS can give to one call of the operation; rem is what of
\* the send buffer is still unsent.
OsAnswers(o, rem) ==
  CASE o = "recv" ->
         {[err |-> ENONE, n |-> k] : k \in 0..1}
         \cup {[err |-> e, n |-> 0] :
                 e \in {EAGAIN, ENOTCONN, ECONNRESET, ESHUTDOWN, EPIPE, ECONNREFUSED}}
    [] o \in {"send", "sendall"} ->
         {[err |-> ENONE, n |-> k] : k \in (IF rem = 0 THEN {0} ELSE 1..rem)}
         \cup {[err |-> e, n |-> 0] : e \in {EAGAIN, ENOTCONN, EPIPE, ECONNREFUSED}}
    [] o = "sendto" ->
         {[err |-> ENONE, n |-> rem]}
         \cup {[err |-> e, n |-> 0] : e \in {EAGAIN, ECONNREFUSED}}
    [] o \in {"recvfrom", "recvfrom_into", "recv_into"} ->
         {[err |-> ENONE, n |-> k] : k \in 0..1}
         \cup {[err |-> e, n |-> 0] : e \in {EAGAIN, ECONNRESET}}
    [] o \in ConnectOps ->
         {[err |-> e, n |-> 0] :
            e \in {ENONE, EISCONN, EINPROGRESS, EALREADY, EWOULDBLOCK, ECONNREFUSED}}
    [] o = "accept" ->
         {[err |-> e, n |-> 0] : e \in {ENONE, EWOULDBLOCK, ECONNREFUSED}}

\* The OS's answer means "would block" (for connect: "in progress").
WouldBlock(o, r) ==
  IF o \in ConnectOps THEN r.err \in {EINPROGRESS, EALREADY, EWOULDBLOCK}
  ELSE r.err \in {EAGAIN, ENOTCONN}

\* The OS took some of the send buffer and left the rest.
PartialSend(c, r) ==
  c.op \in {"send", "sendall"} /\ r.err = ENONE /\ c.total_sent + r.n < c.len_data

\* The answers open to the OS at this call: the last one MaxAttempts allows
\* is neither "would block" nor a partial send.
Answers(c, ob) ==
  {r \in OsAnswers(c.op, c.len_data - c.total_sent) :
     ob.nOs + 1 < MaxAttempts \/ ~(WouldBlock(c.op, r) \/ PartialSend(c, r))}

\* The clock readings possible after one at t.
Later(t) == {u \in {t, t + 1} : u <= MaxClock}

Observe(c, ob, r) ==
  [ob EXCEPT !.last = r.err,
             !.nOs = @ + 1,
             !.nWB = @ + (IF WouldBlock(c.op, r) THEN 1 ELSE 0),
             !.nPart = @ + (IF PartialSend(c, r) THEN 1 ELSE 0),
             !.bytes = @ + (IF c.op \in BufferOps /\ r.err = ENONE THEN r.n ELSE 0)]

\* --------------------------------------------------- GreenSocket: actions
\* The call ends with res at time t.
Finish(c, res, ob, t) ==
  /\ pc' = "idle"
  /\ call' = c
  /\ result' = res
  /\ obs' = ob
  /\ now' = t
  /\ tramp' = None

\* self._trampoline(fd, timeout=tmo) at time t: IOClosed at once on a closed
\* wrapper, else the task is suspended in the hub's trampoline.
Trampoline(c, tmo, ob, t) ==
  IF CallsHub(sock_closed)
  THEN /\ pc' = "suspended"
       /\ call' = c
       /\ result' = NoResult
       /\ obs' = [ob EXCEPT !.nSusp = @ + 1]
       /\ now' = t
       /\ tramp' = tmo
  ELSE Finish(c, OnClosed(c.op), ob, t)

\* One turn of the call's loop starting at time t0, up to the end of the call
\* or to its next suspension.
Attempt(c, ob, t0) ==
  \E r \in Answers(c, ob), t1 \in Later(t0) :
    \E t2 \in (IF c.op \in ConnectOps /\ c.end # None THEN Later(t1) ELSE {t1}) :
      LET out == Iter(c, r, timeout, t1, t2)
          ob1 == Observe(c, ob, r)
      IN IF out.next = "done"
         THEN Finish(out.call, out.result, ob1, t1)
         ELSE Trampoline(out.call, out.tmo, ob1, t2)

\* sendall, lines 390-394: "while mv: b_sent = self.send(mv, flags);
\* mv = mv[b_sent:]".  c.mv is len(mv), c.len_data and c.total_sent are the
\* locals of the send in progress.  The ways the loop can run on from here
\* to its end or to the next suspension, each with what it asked of the OS.
Outcome(out, ob) ==
  [next |-> out.next, result |-> out.result, call |-> out.call, tmo |-> out.tmo,
   obs |-> ob]

RECURSIVE SendallRun(_, _, _)
SendallRun(c, ob, T) ==
  IF c.mv = 0 THEN {Outcome(Fin(Return("None", 0), c), ob)}
  ELSE UNION {
    LET ob1 == Observe(c, ob, r)
        out == IF UsesDirectCall("send", c.nb) THEN Fin(DirectCall("send", r), c)
               ELSE old_send_iter(c, r, T)
    IN IF out.next = "trampoline" \/ out.result.kind = "raise"
       THEN {Outcome(out, ob1)}
       ELSE SendallRun([out.call EXCEPT !.mv = @ - out.result.n,
                                        !.len_data = c.mv - out.result.n,
                                        !.total_sent = 0], ob1, T)
    : r \in (IF c.nb THEN OsAnswers("send", c.len_data - c.total_sent)
             ELSE Answers(c, ob)) }

RunSendall(c, ob, t0) ==
  \E out \in SendallRun(c, ob, timeout), t1 \in Later(t0) :
    IF out.next = "done"
    THEN Finish(out.call, out.result, out.obs, t1)
    ELSE Trampoline(out.call, out.tmo, out.obs, t1)

\* The timeout recvfrom, recvfrom_into and recv_into wait with; sendto
\* passes none.
WaitsUnbounded(o, T) == None
WaitTimeout(o, T) == IF o = "sendto" THEN None ELSE gettimeout(T)

\* The one OS call of recvfrom, recvfrom_into, recv_into, sendto, at time t.
OneCall(c, ob, t) ==
  \E r \in OsAnswers(c.op, c.len_data) :
    Finish(c, DirectCall(c.op, r), Observe(c, ob, r), t)

\* act_non_blocking is set: the one OS call.
Direct(c, ob, t0) ==
  \E r \in OsAnswers(c.op, c.len_data), t1 \in Later(t0) :
    Finish(c, DirectCall(c.op, r), Observe(c, ob, r), t1)

\* The task calls operation o of the wrapper.
Call(o) ==
  /\ pc = "idle"
  /\ ~Released
  /\ now <= MaxStart
  /\ \E len \in (IF o \in BufferOps THEN 0..MaxLen ELSE {0}) :
       LET c == [op |-> o, arg |-> IF o \in BufferOps THEN <<len>> ELSE <<>>,
                 nb |-> act_non_blocking, total_sent |-> 0,
                 len_data |-> len, mv |-> IF o = "sendall" THEN len ELSE 0,
                 end |-> IF o \in ConnectOps /\ gettimeout(timeout) # None
                         THEN Some(Deadline(now, gettimeout(timeout)[1]))
                         ELSE None,
                 start |-> now, T |-> timeout, closed |-> sock_closed]
       IN IF o = "sendall" THEN RunSendall(c, NoObs, now)
          ELSE IF UsesDirectCall(o, act_non_blocking) THEN Direct(c, NoObs, now)
          ELSE IF o \in WaitFirstOps
               THEN Trampoline(c, WaitTimeout(o, timeout), NoObs, now)
               ELSE Attempt(c, NoObs, now)
  /\ UNCHANGED <<act_non_blocking, timeout, sock_closed, sock_log, newsock>>
  /\ UNCHANGED <<duckVars, hubVars, pipeVars, shutVars>>

\* The suspend primitive trampoline(fd, timeout=tmo), entered at time t0:
\* it may return at t because the descriptor is ready, up to its timeout,
MayBeReady(tmo, t0, t) ==
  IF tmo = None THEN t >= t0 ELSE (t = t0 \/ (t >= t0 /\ t <= t0 + tmo[1]))

\* and it may raise timeout_exc at t once its timeout is over.
MayTimeOut(tmo, t0, t) ==
  IF tmo = None THEN FALSE ELSE (t >= t0 /\ t >= t0 + tmo[1])

\* The hub resumes the suspended task: the descriptor is ready.
WakeReady ==
  /\ pc = "suspended"
  /\ \E t \in now..MaxClock :
       /\ MayBeReady(tramp, now, t)
       /\ IF Released
          THEN Finish(call, OnReleased(call.op),
                      IF call.op \in ConnectOps THEN obs
                      ELSE Observe(call, obs, [err |-> EBADF, n |-> 0]), t)
          ELSE IF call.op \in ConnectOps
          THEN \E e \in {ENONE, EISCONN, ECONNREFUSED} :
                 IF AfterWait(call.op, e) = NoResult
                 THEN Attempt(call, obs, t)
                 ELSE Finish(call, AfterWait(call.op, e), obs, t)
          ELSE IF call.op = "sendall" THEN RunSendall(call, obs, t)
          ELSE IF call.op \in WaitFirstOps THEN OneCall(call, obs, t)
          ELSE Attempt(call, obs, t)
  /\ UNCHANGED <<act_non_blocking, timeout, sock_closed, sock_log, newsock>>
  /\ UNCHANGED <<duckVars, hubVars, pipeVars, shutVars>>

\* The hub resumes the suspended task: the timeout of the suspension is over.
WakeTimeout ==
  /\ pc = "suspended"
  /\ \E t \in now..MaxClock :
       /\ MayTimeOut(tramp, now, t)
       /\ Finish(call, OnTimeout(call.op), obs, t)
  /\ UNCHANGED <<act_non_blocking, timeout, sock_closed, sock_log, newsock>>
  /\ UNCHANGED <<duckVars, hubVars, pipeVars, shutVars>>

\* The hub resumes the suspended task with IOClosed: _mark_as_closed().
WakeClosed ==
  /\ pc = "suspended"
  /\ \E t \in now..MaxClock : Finish(call, OnClosed(call.op), obs, t)
  /\ sock_closed' = TRUE
  /\ UNCHANGED <<act_non_blocking, timeout, sock_log, newsock>>
  /\ UNCHANGED <<duckVars, hubVars, pipeVars, shutVars>>

\* A call of setblocking or settimeout with argument a ends with res.
ModeCall(o, a, res) ==
  /\ pc = "idle"
  /\ call' = [NoCall EXCEPT !.op = o, !.arg = a, !.nb = act_non_blocking,
                            !.T = timeout, !.start = now, !.closed = sock_closed]
  /\ result' = res
  /\ obs' = NoObs
  /\ UNCHANGED <<sock_closed, pc, tramp, now, sock_log>>

SetBlocking(flag) ==
  /\ ModeCall("setblocking", <<flag>>, Return("None", 0))
  /\ act_non_blocking' = setblocking(flag).act_non_blocking
  /\ timeout' = setblocking(flag).timeout
  /\ UNCHANGED newsock
  /\ UNCHANGED <<duckVars, hubVars, pipeVars, shutVars>>

SetTimeout(howlong) ==
  LET m == settimeout([act_non_blocking |-> act_non_blocking, timeout |-> timeout],
                      howlong)
  IN /\ ModeCall("settimeout", howlong, m.res)
     /\ act_non_blocking' = m.act_non_blocking
     /\ timeout' = m.timeout
  /\ UNCHANGED newsock
  /\ UNCHANGED <<duckVars, hubVars, pipeVars, shutVars>>

\* dup() returns a new wrapper; st and dt are the timeout of the duplicated
\* OS socket and the process default.  Once the descriptor is released
\* self.sock.dup() raises EBADF and no wrapper is made.
Dup ==
  /\ IF Released
     THEN /\ ModeCall("dup", <<>>, Raise("socket.error", EBADF))
          /\ UNCHANGED newsock
     ELSE \E st \in Timeouts, dt \in Timeouts :
            LET m == dup(timeout, st, dt)
            IN /\ ModeCall("dup", <<>>, Return("socket", 0))
               /\ newsock' = Some([act_non_blocking |-> m.act_non_blocking,
                                   timeout |-> m.timeout])
  /\ UNCHANGED <<act_non_blocking, timeout>>
  /\ UNCHANGED <<duckVars, hubVars, pipeVars, shutVars>>

\* Calls of close() and makefile() on one wrapper that are followed.
MaxCloses == 2

\* close(), by the task that owns the wrapper or by another one while the
\* owner is suspended.
SockClose ==
  /\ Count(sock_log, "sock.close") + Count(sock_log, "makefile") < MaxCloses
  /\ sock_log' = sock_close(sock_log)
  /\ UNCHANGED <<act_non_blocking, timeout, sock_closed, pc, call, result, tramp,
                 now, obs, newsock>>
  /\ UNCHANGED <<duckVars, hubVars, pipeVars, shutVars>>

\* makefile(): socket.makefile makes a file on the wrapper and counts it in
\* the OS socket's _io_refs.
MakeFile ==
  /\ Count(sock_log, "sock.close") + Count(sock_log, "makefile") < MaxCloses
  /\ sock_log' = Append(sock_log, "makefile")
  /\ UNCHANGED <<act_non_blocking, timeout, sock_closed, pc, call, result, tramp,
                 now, obs, newsock>>
  /\ UNCHANGED <<duckVars, hubVars, pipeVars, shutVars>>

\* close() of an open file of makefile(): _decref_socketios, forwarded to
\* the OS socket, counts it out and, when close() has been called on the
\* socket, calls close() again.
FileClose ==
  /\ io_refs(sock_log) > 0
  /\ LET log == Append(sock_log, "file.close")
     IN sock_log' = IF Count(log, "sock.close") > 0 THEN sock_close(log) ELSE log
  /\ UNCHANGED <<act_non_blocking, timeout, sock_closed, pc, call, result, tramp,
                 now, obs, newsock>>
  /\ UNCHANGED <<duckVars, hubVars, pipeVars, shutVars>>

\* Time passes between two calls.
Tick ==
  /\ pc = "idle"
  /\ now < MaxStart
  /\ now' = now + 1
  /\ UNCHANGED <<act_non_blocking, timeout, sock_closed, pc, call, result, tramp, obs,
                 sock_log, newsock>>
  /\ UNCHANGED <<duckVars, hubVars, pipeVars, shutVars>>

\* ------------------------------------------------------------ hub registry
Threads == {1, 2}
\* Registry calls one thread may make.
MaxCalls == 3
Unset == "unset"
NoHub == [type |-> Unset, id |-> 0]

\* _threadlocal = _threading.local(): every thread has its own attributes.
SharedSlot(t) == 1
Slot(t) == t

\* names in get_default_hub
NamesEpollFirst == <<"epoll", "pyuv">>
BackendNames == <<"pyuv", "epoll">>

\* The loop of get_default_hub over names: the first importable module, or
\* None when the loop runs out.
RECURSIVE FirstImportable(_, _)
FirstImportable(names, imp) ==
  IF names = <<>> THEN "None"
  ELSE IF Head(names) \in imp THEN Head(names)
  ELSE FirstImportable(Tail(names), imp)

get_default_hub(imp) == FirstImportable(BackendNames, imp)

\* What use_hub can be given: nothing, a backend module, or a hub class.
HubArgs(imp) == {"None"} \cup imp \cup {"CustomHub"}

\* hasattr(mod, 'Hub'): the backend modules have a Hub class.
HasHubAttr(mod) == mod \in {"pyuv", "epoll"}

\* mod.Hub
HubAttr(mod) == IF mod = "pyuv" THEN "pyuv.Hub" ELSE "epoll.Hub"

\* Whether calling the stored type constructs a hub: None is not callable.
Constructible(ty) == ty \in {"pyuv.Hub", "epoll.Hub", "CustomHub"}

\* use_hub(mod) on thread t: the thread-local state after it.
UseHubKeepsInstance(st, t, mod, imp) ==
  LET m == IF mod = "None" THEN get_default_hub(imp) ELSE mod
  IN [Hub |-> [st.Hub EXCEPT ![Slot(t)] = IF HasHubAttr(m) THEN HubAttr(m) ELSE m],
      hub |-> st.hub]
use_hub(st, t, mod, imp) ==
  LET m == IF mod = "None" THEN get_default_hub(imp) ELSE mod
  IN [Hub |-> [st.Hub EXCEPT ![Slot(t)] = IF HasHubAttr(m) THEN HubAttr(m) ELSE m],
      hub |-> [st.hub EXCEPT ![Slot(t)] = NoHub]]

\* get_hub() on thread t: the thread-local state after it, what it gives,
\* and whether it ran use_hub().
get_hub(st, t, imp, nid) ==
  IF st.hub[Slot(t)] # NoHub
  THEN [st |-> st, res |-> Return(st.hub[Slot(t)].type, st.hub[Slot(t)].id),
        made |-> 0, selected |-> FALSE]
  ELSE LET sel0 == st.Hub[Slot(t)] = Unset
           st1 == IF sel0 THEN use_hub(st, t, "None", imp) ELSE st
           ty == st1.Hub[Slot(t)]
       IN IF Constructible(ty)
          THEN [st |-> [st1 EXCEPT !.hub[Slot(t)] = [type |-> ty, id |-> nid]],
                res |-> Return(ty, nid), made |-> 1, selected |-> sel0]
          ELSE [st |-> st1, res |-> Raise("TypeError", ty), made |-> 0,
                selected |-> sel0]

\* ------------------------------------------------------ _SocketDuckForFd
\* Methods that may still be called on one object.
MaxDuckOps == 6

\* _reuse: the new _refcount
duck_reuse(rc) == rc + 1

\* _drop: the new _refcount, and whether it tears the descriptor down
duck_drop(rc) == rc - 1
DropClosesBelowTwo(rc) == rc <= 1
DropCloses(rc) == rc = 0

\* How os.close(fd) can answer: done, or the descriptor is not open.
CloseAnswers == {ENONE, EBADF}

\* _close: notify_close(fd), then _mark_as_closed(), then os.close(fd), whose
\* failure is swallowed.  notify_close begins with get_hub() on the calling
\* thread; g is what that gives.  When it raises, _close ends there with
\* that error.  log: the calls made for the descriptor, closed: _closed,
\* ans: what os.close answers.
duck_close(log, closed, g, ans) ==
  IF g.res.kind = "raise"
  THEN [log |-> Append(log, "notify_close"), closed |-> closed,
        res |-> g.res, oserr |-> ""]
  ELSE [log |-> log \o <<"notify_close", "_mark_as_closed", "os.close">>,
        closed |-> TRUE, res |-> Return("None", 0), oserr |-> ans]

\* A method that tears down or not ends; ans is what os.close answered, ""
\* when it was not called.
DuckDone(res, ans) ==
  /\ duck_result' = res
  /\ duck_oserr' = ans
  /\ UNCHANGED <<duck_pc, duck_call, duck_obs>>

\* What get_hub() on thread t, with outcome g, leaves in the registry.
HubAsked(g, t) ==
  /\ tl_Hub' = g.st.Hub
  /\ tl_hub' = g.st.hub
  /\ created' = created + g.made
  /\ sel' = IF g.selected THEN [sel EXCEPT ![t] = "default"] ELSE sel
  /\ UNCHANGED <<importable, ret, ncalls>>

DuckCall(m) ==
  /\ duck_alive /\ duck_made = "yes"
  /\ Len(duck_hist) < MaxDuckOps
  /\ duck_hist' = Append(duck_hist, m)
  /\ UNCHANGED duck_made

\* _close() run by thread t, with what its get_hub() does to the registry.
Teardown(t) ==
  \E ans \in CloseAnswers :
    LET g == get_hub([Hub |-> tl_Hub, hub |-> tl_hub], t, importable, created + 1)
        d == duck_close(duck_log, duck_closed, g, ans)
    IN /\ duck_log' = d.log
       /\ duck_closed' = d.closed
       /\ DuckDone(d.res, d.oserr)
       /\ HubAsked(g, t)

\* _SocketDuckForFd(fileno) on thread t: _fileno is set, then
\* notify_opened(fileno) begins with get_hub().  When that raises, __init__
\* raises before _closed is set and the caller gets no object; the half-made
\* one stays alive while the caller handles the exception, and only its
\* __del__ runs later.
Make(t) ==
  /\ duck_alive /\ duck_made = "no"
  /\ LET g == get_hub([Hub |-> tl_Hub, hub |-> tl_hub], t, importable, created + 1)
     IN /\ duck_log' = <<"notify_opened">>
        /\ duck_made' = IF g.res.kind = "raise" THEN "half" ELSE "yes"
        /\ duck_result' = IF g.res.kind = "raise" THEN g.res
                          ELSE Return("_SocketDuckForFd", 0)
        /\ HubAsked(g, t)
  /\ UNCHANGED <<duck_refcount, duck_closed, duck_alive, duck_hist, duck_oserr,
                 duck_pc, duck_call, duck_obs>>
  /\ UNCHANGED <<sockVars, pipeVars, shutVars>>

Reuse ==
  /\ DuckCall("_reuse")
  /\ DuckDone(Return("None", 0), "")
  /\ duck_refcount' = duck_reuse(duck_refcount)
  /\ UNCHANGED <<duck_closed, duck_alive, duck_log>>
  /\ UNCHANGED <<sockVars, hubVars, pipeVars, shutVars>>

\* _drop() called by thread t
Drop(t) ==
  /\ DuckCall("_drop")
  /\ duck_refcount' = duck_drop(duck_refcount)
  /\ IF DropCloses(duck_drop(duck_refcount))
     THEN Teardown(t)
     ELSE /\ UNCHANGED <<duck_log, duck_closed>>
          /\ DuckDone(Return("None", 0), "")
          /\ UNCHANGED hubVars
  /\ UNCHANGED duck_alive
  /\ UNCHANGED <<sockVars, pipeVars, shutVars>>

\* _close() called by thread t
Close(t) ==
  /\ DuckCall("_close")
  /\ Teardown(t)
  /\ UNCHANGED <<duck_refcount, duck_alive>>
  /\ UNCHANGED <<sockVars, pipeVars, shutVars>>

\* __del__ on thread t: the object, made or half-made, is collected, so
\* nothing is called on it afterwards.
Del(t) ==
  /\ duck_alive /\ duck_made \in {"half", "yes"}
  /\ Len(duck_hist) < MaxDuckOps
  /\ duck_hist' = Append(duck_hist, "__del__")
  /\ duck_pc = "idle"
  /\ UNCHANGED duck_made
  /\ Teardown(t)
  /\ duck_alive' = FALSE
  /\ UNCHANGED duck_refcount
  /\ UNCHANGED <<sockVars, pipeVars, shutVars>>

\* ------------------------------------------- _SocketDuckForFd: recv, send
DuckOps == {"recv", "send", "sendall"}

\* recv and sendall wait in self._trampoline, which tests and sets _closed;
\* send calls the hub's trampoline itself.
UsesOwnTrampoline(o) == o # "send"

\* The answers of os.read and os.write; rem is what is left to write.
DuckAnswers(o, rem) ==
  IF o = "recv"
  THEN {[err |-> ENONE, n |-> k] : k \in 0..1}
       \cup {[err |-> e, n |-> 0] : e \in {EAGAIN, ENOTCONN, EBADF}}
  ELSE {[err |-> ENONE, n |-> k] : k \in (IF rem = 0 THEN {0} ELSE 1..rem)}
       \cup {[err |-> e, n |-> 0] : e \in {EAGAIN, ENOTCONN, EPIPE}}

\* One turn of the loop of recv, send or sendall: what the OS call gives.
duck_recv_iter(c, r) ==
  IF r.err = ENONE THEN Fin(Return("data", r.n), c)
  ELSE IF r.err \notin SOCKET_BLOCKING THEN Fin(Raise("IOError", r.err), c)
  ELSE Susp(c, None)

duck_send_iter(c, r) ==
  IF r.err = ENONE THEN Fin(Return("sent", r.n), c)
  ELSE IF r.err \notin SOCKET_BLOCKING THEN Fin(Raise("IOError", r.err), c)
  ELSE Susp(c, None)

duck_sendall_iter(c, r) ==
  IF r.err # ENONE /\ r.err # EAGAIN THEN Fin(Raise("IOError", r.err), c)
  ELSE LET c1 == [c EXCEPT !.total_sent = @ + (IF r.err = ENONE THEN r.n ELSE 0)]
       IN IF c1.total_sent < c1.len_data THEN Susp(c1, None)
          ELSE Fin(Return("None", 0), c1)

DuckIter(c, r) ==
  CASE c.op = "recv" -> duck_recv_iter(c, r)
    [] c.op = "send" -> duck_send_iter(c, r)
    [] c.op = "sendall" -> duck_sendall_iter(c, r)

DuckFinish(c, res, ob) ==
  /\ duck_pc' = "idle"
  /\ duck_call' = c
  /\ duck_result' = res
  /\ duck_obs' = ob

\* The wait after a "would block": _trampoline raises IOClosed at once on a
\* closed wrapper, the hub's trampoline suspends the task whatever _closed is.
DuckTrampoline(c, ob) ==
  IF UsesOwnTrampoline(c.op) /\ duck_closed
  THEN DuckFinish(c, Raise("IOClosed", ""), ob)
  ELSE /\ duck_pc' = "suspended"
       /\ duck_call' = c
       /\ duck_result' = NoResult
       /\ duck_obs' = [ob EXCEPT !.nHub = @ + 1]

DuckAttempt(c, ob) ==
  \E r \in DuckAnswers(c.op, c.len_data - c.total_sent) :
    /\ ob.nOs + 1 < MaxAttempts \/ r.err \notin {EAGAIN, ENOTCONN}
    /\ LET out == DuckIter(c, r)
           ob1 == [ob EXCEPT !.nOs = @ + 1]
       IN IF out.next = "done" THEN DuckFinish(out.call, out.result, ob1)
          ELSE DuckTrampoline(out.call, ob1)


\* The task calls recv, send or sendall.
DuckIO(o) ==
  /\ duck_pc = "idle" /\ duck_alive /\ duck_made = "yes"
  /\ \E len \in (IF o = "recv" THEN {0} ELSE 0..MaxLen) :
       DuckAttempt([op |-> o, total_sent |-> 0, len_data |-> len,
                    closed |-> duck_closed], [nOs |-> 0, nHub |-> 0])
  /\ UNCHANGED duck_closed
  /\ UNCHANGED <<duck_refcount, duck_alive, duck_made, duck_log, duck_hist, duck_oserr>>
  /\ UNCHANGED <<sockVars, hubVars, pipeVars, shutVars>>

\* The hub resumes the task: the descriptor is ready.
DuckWakeReady ==
  /\ duck_pc = "suspended"
  /\ DuckAttempt(duck_call, duck_obs)
  /\ UNCHANGED duck_closed
  /\ UNCHANGED <<duck_refcount, duck_alive, duck_made, duck_log, duck_hist, duck_oserr>>
  /\ UNCHANGED <<sockVars, hubVars, pipeVars, shutVars>>

\* The hub resumes the task with IOClosed: _trampoline marks the wrapper
\* closed and raises it again, send just lets it through.
DuckWakeClosed ==
  /\ duck_pc = "suspended"
  /\ DuckFinish(duck_call, Raise("IOClosed", ""), duck_obs)
  /\ duck_closed' = (UsesOwnTrampoline(duck_call.op) \/ duck_closed)
  /\ UNCHANGED <<duck_refcount, duck_alive, duck_made, duck_log, duck_hist, duck_oserr>>
  /\ UNCHANGED <<sockVars, hubVars, pipeVars, shutVars>>

\* ------------------------------------------------- hub registry: calls

RegistryCall(t) ==
  /\ ncalls[t] < MaxCalls
  /\ ncalls' = [ncalls EXCEPT ![t] = @ + 1]

UseHub(t, mod) ==
  /\ RegistryCall(t)
  /\ LET st == use_hub([Hub |-> tl_Hub, hub |-> tl_hub], t, mod, importable)
     IN tl_Hub' = st.Hub /\ tl_hub' = st.hub
  /\ ret' = [ret EXCEPT ![t] = [fn |-> "use_hub", res |-> Return("None", 0)]]
  /\ sel' = [sel EXCEPT ![t] = IF mod = "None" THEN "default" ELSE mod]
  /\ UNCHANGED <<importable, created>>
  /\ UNCHANGED <<sockVars, duckVars, pipeVars, shutVars>>

GetHub(t) ==
  /\ RegistryCall(t)
  /\ LET g == get_hub([Hub |-> tl_Hub, hub |-> tl_hub], t, importable, created + 1)
     IN /\ tl_Hub' = g.st.Hub
        /\ tl_hub' = g.st.hub
        /\ created' = created + g.made
        /\ ret' = [ret EXCEPT ![t] = [fn |-> "get_hub", res |-> g.res]]
        /\ sel' = IF g.selected THEN [sel EXCEPT ![t] = "default"] ELSE sel
  /\ UNCHANGED importable
  /\ UNCHANGED <<sockVars, duckVars, pipeVars, shutVars>>

\* -------------------------------------------------------------- GreenPipe
\* Largest file position and file length.
MaxPipePos == 2

EINVAL == "EINVAL"

\* _operation_on_closed_file
StubReturnsNone == Return("None", 0)
operation_on_closed_file == Raise("ValueError", "I/O operation on closed file")

\* The names close() sets to _operation_on_closed_file on the instance.
StubbedMethods ==
  {"fileno", "flush", "isatty", "next", "read", "readinto", "readline",
   "readlines", "seek", "tell", "truncate", "write", "xreadlines",
   "__iter__", "__next__", "writelines"}

\* st is the pipe: [pos, size, rbuf].  Each method gives the pipe after the
\* call, the OS calls made on the descriptor, and the result.
PipeOut(st, os, res) == [st |-> st, os |-> os, res |-> res]

\* _get_readahead_len: len(self._rbuf.getvalue()); neither GreenPipe nor its
\* __init__ sets _rbuf, and reading an attribute that is not set raises.
get_readahead_len(st) ==
  IF st.rbuf = None THEN Raise("AttributeError", "_rbuf")
  ELSE Return("len", st.rbuf[1])

\* read(n): SocketIO.read fills from _SocketDuckForFd.recv_into, one os.read.
pipe_read(st, n) ==
  LET got == IF st.pos >= st.size THEN 0
             ELSE IF st.size - st.pos < n THEN st.size - st.pos ELSE n
  IN PipeOut([st EXCEPT !.pos = @ + got], <<"read">>, Return("data", got))

\* _clear_readahead_buf: when len > 0, self.read(len) is SocketIO.read, one
\* os.read that moves the file position; _rbuf keeps what it holds.
clear_readahead_buf(st) ==
  LET l == get_readahead_len(st)
  IN IF l.kind = "raise" THEN PipeOut(st, <<>>, l)
     ELSE IF l.n > 0
          THEN LET r == pipe_read(st, l.n)
               IN PipeOut(r.st, r.os, Return("None", 0))
          ELSE PipeOut(st, <<>>, Return("None", 0))

\* os.lseek(fd, offset, whence): the new position, or EINVAL before the start.
lseek(st, offset, whence) ==
  LET target == CASE whence = 0 -> offset
                  [] whence = 1 -> st.pos + offset
                  [] whence = 2 -> st.size + offset
  IN IF target < 0 THEN [ok |-> FALSE, pos |-> st.pos]
     ELSE [ok |-> TRUE, pos |-> target]

\* tell: flush, then os.lseek(fd, 0, 1) - self._get_readahead_len()
pipe_tell(st) ==
  LET p == lseek(st, 0, 1)
      l == get_readahead_len(st)
  IN IF l.kind = "raise" THEN PipeOut(st, <<"lseek">>, l)
     ELSE PipeOut(st, <<"lseek">>, Return("pos", p.pos - l.n))

\* seek(offset, whence)
pipe_seek(st, offset, whence) ==
  IF whence = 1 /\ offset = 0 THEN pipe_tell(st)
  ELSE LET l == IF whence = 1 THEN get_readahead_len(st) ELSE Return("len", 0)
       IN IF l.kind = "raise" THEN PipeOut(st, <<>>, l)
          ELSE LET r == lseek(st, offset - l.n, whence)
               IN IF ~r.ok THEN PipeOut(st, <<"lseek">>, Raise("IOError", EINVAL))
                  ELSE LET c == clear_readahead_buf([st EXCEPT !.pos = r.pos])
                       IN IF c.res.kind = "raise"
                          THEN PipeOut(c.st, <<"lseek">> \o c.os, c.res)
                          ELSE PipeOut(c.st, <<"lseek">> \o c.os, Return("pos", r.pos))

\* truncate(size): size = -1 is the default, the current position.
\* os.ftruncate refuses a negative length with EINVAL, raised again as
\* IOError with the file as it was; otherwise seek(size) follows.
pipe_truncate(st, size) ==
  LET t == pipe_tell(st)
  IN IF size = -1 /\ t.res.kind = "raise" THEN t
     ELSE LET sz == IF size = -1 THEN t.res.n ELSE size
              os0 == IF size = -1 THEN t.os ELSE <<>>
              k == pipe_seek([st EXCEPT !.size = sz], sz, 0)
          IN IF sz < 0
             THEN PipeOut(st, os0 \o <<"ftruncate">>, Raise("IOError", EINVAL))
             ELSE IF k.res.kind = "raise"
             THEN PipeOut(k.st, os0 \o <<"ftruncate">> \o k.os, k.res)
             ELSE PipeOut(k.st, os0 \o <<"ftruncate">> \o k.os, Return("None", 0))

\* write(b): SocketIO.write hands b to _SocketDuckForFd.send, one os.write,
\* which a regular file takes whole.
pipe_write(st, k) ==
  LET p == st.pos + k
  IN PipeOut([st EXCEPT !.pos = p, !.size = IF p > @ THEN p ELSE @],
             <<"write">>, Return("sent", k))

\* isatty: os.isatty(self.fileno()) of a file
pipe_isatty(st) == PipeOut(st, <<"isatty">>, Return("False", 0))

\* The methods of an open pipe the model calls, and their arguments.
PipeMethods == {"read", "write", "tell", "seek", "truncate", "isatty"}

PipeArgs(m) ==
  CASE m = "read" -> {<<n>> : n \in 1..MaxPipePos}
    [] m = "write" -> {<<k>> : k \in 1..MaxPipePos}
    [] m = "seek" -> {<<o, w>> : o \in -1..MaxPipePos, w \in 0..2}
    [] m = "truncate" -> {<<z>> : z \in -1..MaxPipePos}
    [] OTHER -> {<<>>}

PipeMethod(m, a, st) ==
  CASE m = "read" -> pipe_read(st, a[1])
    [] m = "write" -> pipe_write(st, a[1])
    [] m = "tell" -> pipe_tell(st)
    [] m = "seek" -> pipe_seek(st, a[1], a[2])
    [] m = "truncate" -> pipe_truncate(st, a[1])
    [] m = "isatty" -> pipe_isatty(st)

\* pipe.m(...): an attribute set on the instance hides the method of the class.
Invoke(m, a, st, stubs) ==
  IF m \in stubs THEN PipeOut(st, <<>>, operation_on_closed_file)
  ELSE PipeMethod(m, a, st)

\* GreenPipe(fileno) on thread t: _SocketDuckForFd(fileno) calls
\* notify_opened, which begins with get_hub().  When that raises, __init__
\* raises and the caller gets no pipe.
PipeOpen(t) ==
  /\ gp_made = "no"
  /\ LET g == get_hub([Hub |-> tl_Hub, hub |-> tl_hub], t, importable, created + 1)
     IN /\ gp_made' = IF g.res.kind = "raise" THEN "half" ELSE "yes"
        /\ gp_ret' = [op |-> "__init__", args |-> <<>>,
                      res |-> IF g.res.kind = "raise" THEN g.res
                              ELSE Return("GreenPipe", 0),
                      os |-> <<>>, closed |-> gp_closed, pos |-> gp_pos,
                      size |-> gp_size]
        /\ HubAsked(g, t)
  /\ UNCHANGED <<gp_pos, gp_size, gp_rbuf, gp_closed, gp_stubs>>
  /\ UNCHANGED <<sockVars, duckVars, shutVars>>

\* One call of a method of the pipe.
PipeCall(m) ==
  /\ gp_made = "yes"
  /\ m \in gp_stubs \/ (~gp_closed /\ m \in PipeMethods)
  /\ \E a \in (IF m \in PipeMethods THEN PipeArgs(m) ELSE {<<>>}) :
       LET st == [pos |-> gp_pos, size |-> gp_size, rbuf |-> gp_rbuf]
           out == Invoke(m, a, st, gp_stubs)
       IN /\ out.st.pos <= MaxPipePos /\ out.st.size <= MaxPipePos
          /\ gp_pos' = out.st.pos
          /\ gp_size' = out.st.size
          /\ gp_rbuf' = out.st.rbuf
          /\ gp_ret' = [op |-> m, args |-> a, res |-> out.res, os |-> out.os,
                        closed |-> gp_closed, pos |-> gp_pos, size |-> gp_size]
  /\ UNCHANGED <<gp_closed, gp_stubs, gp_made>>
  /\ UNCHANGED <<sockVars, duckVars, hubVars, shutVars>>

\* close() on thread t, called, from __exit__, or from IOBase.__del__ when
\* the pipe is collected.  On an open pipe SocketIO.close calls
\* _sock._decref_socketios() and drops its reference to the duck-socket,
\* whose __del__ runs _close: notify_close begins with get_hub(), then
\* _mark_as_closed and os.close.  An error of get_hub() stays in __del__:
\* the descriptor is left open and close() goes on.  On a closed pipe
\* SocketIO.close returns at once.  Then the stubs are set.  When a pipe
\* whose __init__ raised is collected, RawIOBase.close marks it closed and
\* SocketIO.close then fails on the missing _sock, before any stub is set
\* (the error stays in __del__); the half-made duck-socket is collected too.
PipeClose(how, t) ==
  /\ gp_made = "yes" \/ (gp_made = "half" /\ how = "__del__")
  /\ LET g == get_hub([Hub |-> tl_Hub, hub |-> tl_hub], t, importable, created + 1)
         releases == gp_made = "half" \/ ~gp_closed
     IN /\ IF releases THEN HubAsked(g, t) ELSE UNCHANGED hubVars
        /\ gp_ret' = [op |-> how, args |-> <<>>, res |-> Return("None", 0),
                      os |-> IF releases /\ g.res.kind # "raise"
                             THEN <<"close">> ELSE <<>>,
                      closed |-> gp_closed, pos |-> gp_pos, size |-> gp_size]
  /\ gp_closed' = TRUE
  /\ gp_stubs' = IF gp_made = "yes" THEN gp_stubs \cup StubbedMethods ELSE gp_stubs
  /\ gp_made' = IF how = "__del__" THEN "gone" ELSE gp_made
  /\ UNCHANGED <<gp_pos, gp_size, gp_rbuf>>
  /\ UNCHANGED <<sockVars, duckVars, shutVars>>

\* ---------------------------------------------------------- shutdown_safe
\* How a call of sock.shutdown can end: it returns, its arity does not fit
\* (TypeError), or the OS refuses with an error number.
SH_OK == "ok"
SH_TYPE == "TypeError"
ShutdownErrnos == {ENOTCONN, ECONNRESET, EPIPE, EBADFD, ESHUTDOWN, ECONNREFUSED}
ShutdownAnswers == {SH_OK, SH_TYPE} \cup ShutdownErrnos

\* if get_errno(e) != errno.ENOTCONN: raise
ForgivesPeerGone(e) == e \in {ENOTCONN, ECONNRESET, EPIPE}
Forgiven(e) == e = ENOTCONN

\* shutdown_safe(sock): a1 and a2 are the answers of the two forms.
shutdown_safe(a1, a2) ==
  LET two == <<"shutdown(SHUT_RDWR)">>
      calls == IF a1 = SH_TYPE THEN Append(two, "shutdown()") ELSE two
      ans == IF a1 = SH_TYPE THEN a2 ELSE a1
  IN [calls |-> calls,
      res |-> IF ans = SH_OK THEN Return("None", 0)
              ELSE IF ans = SH_TYPE THEN Raise("TypeError", "")
              ELSE IF Forgiven(ans) THEN Return("None", 0)
              ELSE Raise("socket.error", ans)]

ShutdownSafe ==
  /\ sh_calls = <<>>
  /\ sh_calls' = shutdown_safe(sh_first, sh_second).calls
  /\ sh_res' = shutdown_safe(sh_first, sh_second).res
  /\ UNCHANGED <<sh_first, sh_second>>
  /\ UNCHANGED <<sockVars, duckVars, hubVars, pipeVars>>

InitSock ==
  /\ \E how \in {"family", "adopt"}, st \in Timeouts, dt \in Timeouts :
       /\ act_non_blocking = GreenSocketInit(how, st, dt).act_non_blocking
       /\ timeout = GreenSocketInit(how, st, dt).timeout
  /\ sock_closed = FALSE
  /\ pc = "idle"
  /\ call = NoCall
  /\ result = NoResult
  /\ tramp = None
  /\ now = 0
  /\ obs = NoObs
  /\ sock_log = <<>>
  /\ newsock = None

InitDuck ==
  /\ duck_refcount = 0
  /\ duck_closed = FALSE
  /\ duck_alive = TRUE
  /\ duck_made = "no"
  /\ duck_log = <<>>
  /\ duck_hist = <<>>
  /\ duck_oserr = ""
  /\ duck_pc = "idle"
  /\ duck_call = [op |-> "none", total_sent |-> 0, len_data |-> 0, closed |-> FALSE]
  /\ duck_result = NoResult
  /\ duck_obs = [nOs |-> 0, nHub |-> 0]

InitHub ==
  /\ tl_Hub = [t \in Threads |-> Unset]
  /\ tl_hub = [t \in Threads |-> NoHub]
  /\ importable \in SUBSET {"pyuv", "epoll"}
  /\ created = 0
  /\ ret = [t \in Threads |-> [fn |-> "none", res |-> NoResult]]
  /\ sel = [t \in Threads |-> Unset]
  /\ ncalls = [t \in Threads |-> 0]

\* Before GreenPipe(fileno): the descriptor is open on a file of some length
\* at some position.
InitPipe ==
  /\ gp_pos \in 0..MaxPipePos
  /\ gp_size \in 0..MaxPipePos
  /\ gp_rbuf = None
  /\ gp_closed = FALSE
  /\ gp_stubs = {}
  /\ gp_ret = [op |-> "none", args |-> <<>>, res |-> NoResult, os |-> <<>>,
               closed |-> FALSE, pos |-> 0, size |-> 0]
  /\ gp_made = "no"

InitShut ==
  /\ sh_first \in ShutdownAnswers
  /\ sh_second \in ShutdownAnswers
  /\ sh_calls = <<>>
  /\ sh_res = NoResult

Init == InitSock /\ InitDuck /\ InitHub /\ InitPipe /\ InitShut

\* One component at a time: what the others start with is held fixed.
SockFixed == timeout = None
HubFixed == importable = {"pyuv", "epoll"}
PipeFixed == gp_size = 0 /\ gp_pos = 0
ShutFixed == sh_first = SH_OK /\ sh_second = SH_OK

\* The green socket alone: the registry's environment is held fixed.
InitSockOnly == Init /\ SockFixed /\ HubFixed /\ PipeFixed /\ ShutFixed

NextSock ==
  \/ \E o \in SockOps : Call(o)
  \/ WakeReady
  \/ WakeTimeout
  \/ WakeClosed
  \/ \E flag \in BOOLEAN : SetBlocking(flag)
  \/ \E h \in {None, NotANumber} \cup {Some(d) : d \in -1..MaxT} : SetTimeout(h)
  \/ Tick

SpecSock == InitSockOnly /\ [][NextSock]_vars

\* The green socket and the duck-socket with close() and the teardown that
\* another task may run while the owner is suspended.
NextClose ==
  \/ \E o \in {"recv", "accept", "connect", "recvfrom"} : Call(o)
  \/ WakeReady
  \/ WakeClosed
  \/ SockClose
  \/ MakeFile
  \/ FileClose
  \/ Make(1)
  \/ Close(1)

SpecClose == InitSockOnly /\ [][NextClose]_vars

\* The modes of a wrapper, from any way of constructing it.
InitMode == Init /\ HubFixed /\ PipeFixed /\ ShutFixed

NextMode ==
  \/ \E flag \in BOOLEAN : SetBlocking(flag)
  \/ \E h \in {None, NotANumber} \cup {Some(d) : d \in -1..MaxT} : SetTimeout(h)
  \/ Dup
  \/ SockClose
  \/ MakeFile
  \/ FileClose
  \/ Tick

SpecMode == InitMode /\ [][NextMode]_vars

NextDuck ==
  \/ \E t \in Threads : Make(t)
  \/ Reuse
  \/ \E t \in Threads : Drop(t)
  \/ \E t \in Threads : Close(t)
  \/ \E t \in Threads : Del(t)

SpecDuck == InitSockOnly /\ [][NextDuck]_vars

\* The I/O of the duck-socket, with the teardown another task may run.
NextDuckIO ==
  \/ \E o \in DuckOps : DuckIO(o)
  \/ DuckWakeReady
  \/ DuckWakeClosed
  \/ \E t \in Threads : Make(t)
  \/ \E t \in Threads : Close(t)

SpecDuckIO == InitSockOnly /\ [][NextDuckIO]_vars

NextHub ==
  \/ \E t \in Threads : \E mod \in HubArgs(importable) : UseHub(t, mod)
  \/ \E t \in Threads : GetHub(t)

InitHubOnly == Init /\ SockFixed /\ PipeFixed /\ ShutFixed

SpecHub == InitHubOnly /\ [][NextHub]_vars

\* The pipe with the registry its construction and its close consult: any
\* set of backends may be importable, and thread 1 may select a hub itself.
NextPipe ==
  \/ \E m \in PipeMethods \cup StubbedMethods : PipeCall(m)
  \/ \E t \in Threads : PipeOpen(t)
  \/ \E how \in {"close", "__exit__", "__del__"} : \E t \in Threads : PipeClose(how, t)
  \/ UseHub(1, "CustomHub")

\* For the pipe it matters only whether a backend can be imported at all.
InitPipeOnly ==
  Init /\ SockFixed /\ ShutFixed /\ importable \in {{}, {"pyuv", "epoll"}}

SpecPipe == InitPipeOnly /\ [][NextPipe]_vars

NextShut == ShutdownSafe

InitShutOnly == Init /\ SockFixed /\ HubFixed /\ PipeFixed

SpecShut == InitShutOnly /\ [][NextShut]_vars

Next == NextSock \/ NextClose \/ NextMode \/ NextDuck \/ NextDuckIO \/ NextHub \/ NextPipe \/ NextShut

Spec == Init /\ [][Next]_vars

\* ------------------------------------------------------------------ claims
\* A call of operation o has ended.
Ended(o) == pc = "idle" /\ call.op = o
RetryOps == {"recv", "send", "connect", "accept"}

\* C1 (as stated): in suspending mode a call of recv, send, connect or accept
\* that returns has suspended exactly as often as the OS answered "would
\* block", and never after an OS call that made progress.
C1_SuspendsEqualWouldBlocks ==
  (pc = "idle" /\ call.op \in RetryOps /\ ~call.nb /\ result.kind = "return")
    => obs.nSusp = obs.nWB

\* C1 (amended): in suspending mode a call of recv, connect or accept that
\* returns has suspended exactly once per "would block" answer; a send that
\* returns has suspended once per OS call that left bytes unsent (a "would
\* block" answer or a partial send), and not at all for an empty buffer.
C1_SuspendsPerUnfinishedAttempt ==
  (pc = "idle" /\ call.op \in RetryOps /\ ~call.nb /\ result.kind = "return")
    => /\ call.op # "send" => (obs.nSusp = obs.nWB /\ obs.nPart = 0)
       /\ (call.op = "send" /\ call.len_data > 0) => obs.nSusp = obs.nWB + obs.nPart
       /\ (call.op = "send" /\ call.len_data = 0) => obs.nSusp = 0

C1_Witness ==
  /\ Ended("send") /\ ~call.nb /\ result = Return("sent", 2)
  /\ obs.nWB = 1 /\ obs.nPart = 1 /\ obs.nSusp = 2

\* The errors with which the operations hand on a closed descriptor.
ClosedErrors ==
  {Raise("EOFError", ""), Raise("socket.error", ECONNRESET),
   Raise("socket.error", EBADFD), Return(EBADFD, 0), Raise("IOClosed", "")}

\* An OS call of the call left it unfinished: it answered "would block", or
\* took only a part of a send buffer.
LeftUnfinished ==
  obs.nWB + obs.nPart > 0 /\ ~(call.op = "send" /\ call.len_data = 0)

\* C2 (as stated): once the wrapper is closed, every later operation fails
\* at once with a closed error, whatever the OS would answer.
C2_EveryLaterCallFails ==
  (pc = "idle" /\ call.op \in SockOps /\ call.closed)
    => (result \in ClosedErrors /\ obs.nSusp = 0)

\* The call ended with the outcome of its last OS call: a result when the
\* call succeeded (for connect and connect_ex also when the socket is
\* connected already), else the OS error, raised or, by connect_ex,
\* returned; recv in suspending mode gives the empty result for a
\* connection that is reset, shut down or a broken pipe.
EndedAsTheOsAnswered ==
  IF obs.last = ENONE \/ (call.op \in ConnectOps /\ ~call.nb /\ obs.last = EISCONN)
  THEN result.kind = "return"
  ELSE \/ result = Raise("socket.error", obs.last)
       \/ call.op = "connect_ex" /\ result = Return(obs.last, 0)
       \/ /\ call.op = "recv" /\ ~call.nb
          /\ obs.last \in {ECONNRESET, ESHUTDOWN, EPIPE}
          /\ result = Return("data", 0)

\* C2 (amended): a closed signal during recv makes that recv raise EOFError;
\* afterwards the suspend primitive is never invoked again.  A later call
\* that has to suspend ends at once the way its operation hands on the
\* closed signal (connect and connect_ex with a deadline that is over: with
\* the timeout); recvfrom, recvfrom_into and recv_into in suspending mode
\* and sendto in either mode, which wait before their OS call, raise
\* IOClosed without calling the OS.  A later call whose OS call neither
\* reported "would block" nor left bytes unsent, and a later call other than
\* sendto in non-suspending mode, makes its OS call and ends as the OS
\* answered.
C2_ClosedNeverSuspendsAgain ==
  /\ (Ended("recv") /\ sock_closed /\ ~call.closed) => result = Raise("EOFError", "")
  /\ call.closed => (pc = "idle" /\ obs.nSusp = 0)
  /\ (call.closed /\ ~call.nb /\ LeftUnfinished)
       => (obs.nOs = 1 /\ result \in {OnClosed(call.op), OnTimeout(call.op)})
  /\ (call.closed /\ ~call.nb /\ LeftUnfinished /\ call.op \notin ConnectOps)
       => result = OnClosed(call.op)
  /\ (call.closed /\ (call.op = "sendto" \/
                       (~call.nb /\ call.op \in {"recvfrom", "recvfrom_into", "recv_into"})))
       => (obs.nOs = 0 /\ result = Raise("IOClosed", ""))
  /\ (call.closed /\ call.nb /\ call.op \in SockOps \ {"sendto"})
       => /\ call.op # "sendall" => obs.nOs = 1
          /\ obs.nOs > 0 => EndedAsTheOsAnswered
  /\ (call.closed /\ ~call.nb /\ obs.nWB + obs.nPart = 0
        /\ call.op \in SockOps \ WaitFirstOps)
       => /\ call.op # "sendall" => obs.nOs = 1
          /\ obs.nOs > 0 => EndedAsTheOsAnswered

C2_Witness ==
  /\ Ended("send") /\ call.closed /\ ~call.nb
  /\ obs.nPart = 1 /\ obs.nSusp = 0
  /\ result = Raise("socket.error", ECONNRESET)

\* C5: a call of recv, send, connect or accept made after setblocking(False)
\* or settimeout(0) issues exactly one OS call and never suspends.
C5_NonBlockingOneCall ==
  /\ (call.op \in RetryOps /\ (call.nb \/ call.T = Some(0)))
       => (pc = "idle" /\ obs.nOs = 1 /\ obs.nSusp = 0)
  /\ timeout = Some(0) => act_non_blocking

C5_Witness ==
  /\ Ended("accept") /\ call.T = Some(0)
  /\ result = Raise("socket.error", EWOULDBLOCK)
  /\ obs.nOs = 1 /\ obs.nSusp = 0 /\ obs.nWB = 1

\* C6: connect_ex in suspending mode never raises.
C6_ConnectExNeverRaises ==
  (Ended("connect_ex") /\ ~call.nb) => result.kind # "raise"

\* C7: connect with a finite timeout T raises its timeout no earlier than
\* start + T and asks for no suspension that outlasts start + T; connect
\* without a timeout never raises a timeout and suspends without one.
C7_ConnectTimeoutBoundary ==
  /\ (Ended("connect") /\ ~call.nb /\ result.exc = "socket.timeout")
       => (call.T # None /\ now >= call.start + call.T[1])
  /\ (pc = "suspended" /\ call.op = "connect" /\ call.T # None)
       => (tramp # None /\ now + tramp[1] <= call.start + call.T[1])
  /\ (pc = "suspended" /\ call.op = "connect" /\ call.T = None) => tramp = None

C7_Witness ==
  /\ Ended("connect") /\ ~call.nb /\ result.exc = "socket.timeout"
  /\ call.start = 1 /\ call.T = Some(1) /\ now = 2
  /\ obs.nWB = 2 /\ obs.nSusp = 1

\* C8: in suspending mode a recv whose OS call fails with ECONNRESET,
\* ESHUTDOWN or EPIPE returns an empty result, on the first attempt as after
\* any number of retries, and suspends no more.
C8_PeerClosedIsEmptyRead ==
  (call.op = "recv" /\ ~call.nb /\ obs.last \in {ECONNRESET, ESHUTDOWN, EPIPE})
    => (pc = "idle" /\ result = Return("data", 0) /\ obs.nSusp = obs.nWB)

C8_Witness ==
  /\ Ended("recv") /\ ~call.nb /\ obs.last = EPIPE /\ obs.nWB = 2
  /\ result = Return("data", 0)

\* How often the descriptor has been released to the OS, and how often the
\* hub has been told of its close.
Releases == Count(duck_log, "os.close")
CloseNotices == Count(duck_log, "notify_close")

\* The methods called so far are n calls of _reuse followed by k of _drop.
ReusesThenDrops(n, k) ==
  /\ Len(duck_hist) = n + k
  /\ \A i \in 1..n : duck_hist[i] = "_reuse"
  /\ \A i \in (n + 1)..(n + k) : duck_hist[i] = "_drop"

\* C3: after N calls of _reuse and then N of _drop (N >= 1) the descriptor
\* has been released exactly once; after fewer than N drops, not at all.
C3_ReleasedByLastDrop ==
  \A n \in 1..MaxDuckOps : \A k \in 0..n :
    ReusesThenDrops(n, k) => Releases = (IF k = n THEN 1 ELSE 0)

C3_Witness == ReusesThenDrops(3, 3) /\ Releases = 1 /\ duck_closed

\* C4: over the life of a duck-socket, whatever the order of _reuse, _drop,
\* _close and __del__, the descriptor is released once and the hub is told
\* of the close once: never twice, and once by the time the object is gone.
C4_ReleasedExactlyOnce ==
  /\ Releases <= 1
  /\ CloseNotices <= 1
  /\ (~duck_alive /\ duck_hist # <<>>) => (Releases = 1 /\ CloseNotices = 1)

\* The hub type default selection must give.
PreferredBackend ==
  IF "pyuv" \in importable THEN "pyuv.Hub"
  ELSE IF "epoll" \in importable THEN "epoll.Hub"
  ELSE "None"

\* C9: default selection takes pyuv when it can be imported, else epoll when
\* that can, else no backend; with no backend every get_hub fails, and none
\* returns or caches a hub.
C9_DefaultSelection ==
  \A t \in Threads :
    sel[t] = "default" =>
      /\ tl_Hub[t] = PreferredBackend
      /\ importable = {} =>
           /\ tl_hub[t] = NoHub
           /\ ret[t].fn = "get_hub" => ret[t].res.kind = "raise"
      /\ (importable # {} /\ ret[t].fn = "get_hub") =>
           (ret[t].res = Return(PreferredBackend, tl_hub[t].id) /\ tl_hub[t] # NoHub)

C9_Witness ==
  /\ importable = {}
  /\ sel[1] = "default" /\ ncalls[1] = 3 /\ tl_hub[1] = NoHub
  /\ ret[1] = [fn |-> "get_hub", res |-> Raise("TypeError", "None")]
  /\ sel[2] = "default" /\ ret[2].fn = "get_hub"

\* C10, as a step: a thread that makes no call keeps its hub and hub type.
OthersUntouched ==
  \A t \in Threads :
    ncalls'[t] = ncalls[t] => (tl_hub'[t] = tl_hub[t] /\ tl_Hub'[t] = tl_Hub[t])

\* C10, as a state: what two threads got from get_hub are two objects.
DistinctHubs ==
  \A t, u \in Threads :
    (t # u /\ ret[t].fn = "get_hub" /\ ret[u].fn = "get_hub"
       /\ ret[t].res.kind = "return" /\ ret[u].res.kind = "return")
      => ret[t].res.n # ret[u].res.n

\* C10: hub state is per thread: two threads get distinct hubs from get_hub,
\* and no call on one thread changes the other's cached hub or hub type.
C10_PerThreadHubs == []DistinctHubs /\ [][OthersUntouched]_vars

C10_Witness ==
  /\ ret[1] = [fn |-> "use_hub", res |-> Return("None", 0)]
  /\ sel[1] = "CustomHub" /\ ncalls[1] = 2
  /\ tl_hub[1] = NoHub
  /\ tl_hub[2] # NoHub /\ tl_Hub[2] # "CustomHub"
  /\ ret[2].fn = "get_hub" /\ ret[2].res.n = tl_hub[2].id

\* The type a use_hub call with argument arg must leave selected: the Hub
\* class of a backend module, the object itself when it has none.
SelectedType(arg) ==
  CASE arg = "default" -> PreferredBackend
    [] arg = "pyuv" -> "pyuv.Hub"
    [] arg = "epoll" -> "epoll.Hub"
    [] OTHER -> arg

\* Thread t makes a registry call in this step.
CallsUseHub(t) == ncalls'[t] # ncalls[t] /\ ret'[t].fn = "use_hub"
CallsGetHub(t) == ncalls'[t] # ncalls[t] /\ ret'[t].fn = "get_hub"

\* C11, as a step.  use_hub drops the thread's instance and selects the type.
\* get_hub with an instance cached returns that instance and constructs
\* nothing; with none cached, it first makes the default selection if no
\* type is selected, and when it returns it has constructed one instance,
\* never handed out before, of the selected type, which it caches.
HubCachedBetweenSelections ==
  \A t \in Threads :
    /\ CallsUseHub(t) =>
         (tl_hub'[t] = NoHub /\ tl_Hub'[t] = SelectedType(sel'[t]) /\ created' = created)
    /\ (CallsGetHub(t) /\ tl_hub[t] # NoHub) =>
         /\ ret'[t].res = Return(tl_hub[t].type, tl_hub[t].id)
         /\ created' = created /\ tl_hub'[t] = tl_hub[t] /\ tl_Hub'[t] = tl_Hub[t]
    /\ (CallsGetHub(t) /\ tl_hub[t] = NoHub) =>
         /\ tl_Hub[t] = Unset => (sel'[t] = "default" /\ tl_Hub'[t] = PreferredBackend)
         /\ tl_Hub[t] # Unset => tl_Hub'[t] = tl_Hub[t]
         /\ ret'[t].res.kind = "return" =>
              /\ created' = created + 1
              /\ ret'[t].res = Return(tl_Hub'[t], created')
              /\ tl_hub'[t] = [type |-> tl_Hub'[t], id |-> created']
         /\ ret'[t].res.kind = "raise" =>
              (created' = created /\ tl_hub'[t] = NoHub /\ tl_Hub'[t] = "None")

\* C11, as a state: a cached instance is of the selected type, and no two
\* threads cache the same instance.
CachedIsSelected ==
  \A t \in Threads :
    tl_hub[t] # NoHub =>
      /\ tl_hub[t].type = tl_Hub[t]
      /\ tl_hub[t].id \in 1..created
      /\ \A u \in Threads \ {t} : tl_hub[u].id # tl_hub[t].id

\* C11: within one thread get_hub constructs at most one hub between two
\* use_hub calls: it returns the cached instance until use_hub is called, the
\* first get_hub after a use_hub constructs a fresh instance of the newly
\* selected type (mod.Hub, or the object given when it has no Hub), and with
\* nothing selected get_hub makes the default selection first.
C11_HubCachedUntilUseHub == []CachedIsSelected /\ [][HubCachedBetweenSelections]_vars

\* get_hub, use_hub(CustomHub), get_hub on thread 1; two get_hub on thread 2.
C11_Witness ==
  /\ ncalls[1] = 3 /\ sel[1] = "CustomHub"
  /\ ret[1] = [fn |-> "get_hub", res |-> Return("CustomHub", 3)]
  /\ tl_hub[1] = [type |-> "CustomHub", id |-> 3]
  /\ ncalls[2] = 2 /\ sel[2] = "default" /\ created = 3
  /\ ret[2] = [fn |-> "get_hub", res |-> Return(PreferredBackend, 2)]

\* The methods C12 names: read, write, seek, tell, truncate, isatty, fileno,
\* flush, readline(s), writelines and iteration.
ClosedPipeMethods ==
  {"read", "write", "seek", "tell", "truncate", "isatty", "fileno", "flush",
   "readline", "readlines", "writelines", "__iter__", "__next__"}

\* C12: once a Green Pipe is closed (by close() or by leaving a with block,
\* once or repeatedly, after whatever calls came before) each of these
\* methods is replaced, and a call of it raises "I/O operation on closed
\* file", makes no OS call on the descriptor and leaves the position and the
\* buffer as they were; a further close returns and leaves the pipe closed.
C12_ClosedPipeFailsFast ==
  /\ (gp_closed /\ gp_made = "yes") => ClosedPipeMethods \subseteq gp_stubs
  /\ (gp_ret.closed /\ gp_ret.op \in ClosedPipeMethods) =>
       /\ gp_ret.res = Raise("ValueError", "I/O operation on closed file")
       /\ gp_ret.os = <<>>
       /\ gp_pos = gp_ret.pos /\ gp_size = gp_ret.size /\ gp_rbuf = None
  /\ gp_ret.closed => gp_closed
  /\ gp_ret.op \in {"close", "__exit__"} => (gp_closed /\ gp_ret.res = Return("None", 0))

C12_Witness ==
  /\ gp_ret.closed /\ gp_ret.op = "__iter__"
  /\ gp_ret.res = Raise("ValueError", "I/O operation on closed file")
  /\ gp_pos = 1 /\ gp_size = 2

\* The length of the read-ahead buffer.
ReadAhead == IF gp_rbuf = None THEN 0 ELSE gp_rbuf[1]

\* C13: on an open Green Pipe over a seekable file tell() returns the OS
\* position less the length of the read-ahead buffer; seek(0, current)
\* returns the same and moves nothing; any other seek that the OS accepts
\* returns the position sought, which tell then reports, with the read-ahead
\* buffer empty, and seek(k, current) moves the position by k.
C13_PipePositionArithmetic ==
  ~gp_ret.closed =>
    /\ gp_ret.op = "tell" =>
         (gp_ret.res = Return("pos", gp_pos - ReadAhead) /\ gp_pos = gp_ret.pos)
    /\ (gp_ret.op = "seek" /\ gp_ret.args = <<0, 1>>) =>
         (gp_ret.res = Return("pos", gp_pos - ReadAhead) /\ gp_pos = gp_ret.pos)
    /\ (gp_ret.op = "seek" /\ gp_ret.args # <<0, 1>> /\ gp_ret.res.exc # "IOError") =>
         /\ gp_ret.res = Return("pos", gp_pos) /\ ReadAhead = 0
         /\ gp_ret.args[2] = 0 => gp_pos = gp_ret.args[1]
         /\ gp_ret.args[2] = 1 => gp_pos = gp_ret.pos + gp_ret.args[1]

\* The answer of the form of shutdown called last.
LastShutdownAnswer == IF Len(sh_calls) = 2 THEN sh_second ELSE sh_first

\* C14: shutdown_safe returns normally when shutdown reports ENOTCONN, from
\* the two-argument form or from the zero-argument form tried after a
\* TypeError; any other OS error of either form reaches the caller as it
\* is; the zero-argument form is tried only after the two-argument form
\* ended with a TypeError, and the two-argument form is always tried first.
C14_ShutdownForgivesNotConnected ==
  sh_calls # <<>> =>
    /\ sh_calls[1] = "shutdown(SHUT_RDWR)"
    /\ Len(sh_calls) = 2 <=> sh_first = SH_TYPE
    /\ Len(sh_calls) = 2 => sh_calls[2] = "shutdown()"
    /\ LastShutdownAnswer \in {ENOTCONN, SH_OK} => sh_res = Return("None", 0)
    /\ LastShutdownAnswer \in ShutdownErrnos \ {ENOTCONN}
         => sh_res = Raise("socket.error", LastShutdownAnswer)

C14_Witness ==
  /\ sh_calls = <<"shutdown(SHUT_RDWR)", "shutdown()">>
  /\ sh_first = SH_TYPE /\ sh_second = ENOTCONN
  /\ sh_res = Return("None", 0)

\* The mode C15 gives for each argument of the two setters.
Suspending(t) == ~act_non_blocking /\ gettimeout(timeout) = t
NonSuspending == act_non_blocking /\ gettimeout(timeout) = Some(0)
ModeKept == act_non_blocking = call.nb /\ gettimeout(timeout) = call.T

\* C15, as a state, after a call of a setter.
ModeAfterSetter ==
  /\ Ended("setblocking") =>
       /\ result = Return("None", 0)
       /\ call.arg = <<TRUE>> => Suspending(None)
       /\ call.arg = <<FALSE>> => NonSuspending
  /\ (Ended("settimeout") /\ call.arg = None) =>
       (Suspending(None) /\ result = Return("None", 0))
  /\ (Ended("settimeout") /\ call.arg = NotANumber) =>
       (ModeKept /\ result.kind = "raise" /\ result.exc = "TypeError")
  /\ (Ended("settimeout") /\ call.arg \notin {None, NotANumber}) =>
       /\ call.arg[1] < 0 =>
            (ModeKept /\ result.kind = "raise" /\ result.exc = "ValueError")
       /\ call.arg[1] = 0 => (NonSuspending /\ result = Return("None", 0))
       /\ call.arg[1] > 0 => (Suspending(call.arg) /\ result = Return("None", 0))

\* C15, as a step: only a setter that returns changes the mode.
ModeSetOnlyBySetters ==
  (act_non_blocking' # act_non_blocking \/ timeout' # timeout)
    => (call'.op \in {"setblocking", "settimeout"} /\ result'.kind = "return")

\* C15: setblocking(True) and settimeout(None) give suspending mode with no
\* timeout, setblocking(False) and settimeout(0) non-suspending mode with
\* timeout 0, settimeout(t) for t > 0 suspending mode with timeout t;
\* settimeout raises ValueError for a negative and TypeError for a
\* non-numeric argument and then changes neither act_non_blocking nor the
\* timeout; gettimeout gives what the last setter that returned has set.
C15_ModeTransitions == []ModeAfterSetter /\ [][ModeSetOnlyBySetters]_vars

C15_Witness ==
  /\ Ended("settimeout") /\ call.arg = Some(-1) /\ call.T = Some(1) /\ ~call.nb
  /\ result = Raise("ValueError", "Timeout value out of range")
  /\ gettimeout(timeout) = Some(1) /\ ~act_non_blocking /\ sock_closed

\* C16: in suspending mode a send that returns has handed the whole buffer
\* to the OS and returns len(data), whatever partial sends and "would block"
\* answers came first; a sendall that returns, in either mode, has handed
\* len(data) bytes to the OS, and one that has not ends with an error.
C16_SendsWholeBuffer ==
  /\ (Ended("send") /\ ~call.nb /\ result.kind = "return") =>
       (result = Return("sent", call.arg[1]) /\ obs.bytes = call.arg[1])
  /\ (Ended("sendall") /\ result.kind = "return") =>
       (result = Return("None", 0) /\ obs.bytes = call.arg[1])
  /\ (Ended("sendall") /\ obs.bytes # call.arg[1]) =>
       (result.kind = "raise" /\ result.exc \in {"socket.error", "socket.timeout"})

C16_Witness ==
  /\ Ended("sendall") /\ call.nb /\ call.arg = <<2>>
  /\ obs.nPart = 1 /\ obs.nOs = 2 /\ obs.bytes = 2 /\ obs.nSusp = 0
  /\ result = Return("None", 0)

\* C17: a call made while act_non_blocking is set never invokes the suspend
\* primitive, whichever operation it is.
C17_NonBlockingNeverSuspends ==
  (call.op \in SockOps /\ call.nb) => (pc # "suspended" /\ obs.nSusp = 0)

\* The hub reported the descriptor closed during the call that has ended.
ClosedWhileSuspended(o) == Ended(o) /\ sock_closed /\ ~call.closed

\* C19: the error a call ends with when the hub reports the
\* descriptor closed while it is suspended depends on the kind of operation
\* only: EOFError for recv, recvfrom, recvfrom_into, recv_into and accept,
\* ECONNRESET for send, sendall and sendto, EBADFD for connect (returned by
\* connect_ex).
C19_ClosedErrorByKind ==
  /\ \A o \in {"recv", "recvfrom", "recvfrom_into", "recv_into", "accept"} :
       ClosedWhileSuspended(o) => result = Raise("EOFError", "")
  /\ \A o \in {"send", "sendall", "sendto"} :
       ClosedWhileSuspended(o) => result = Raise("socket.error", ECONNRESET)
  /\ ClosedWhileSuspended("connect") => result = Raise("socket.error", EBADFD)
  /\ ClosedWhileSuspended("connect_ex") => result = Return(EBADFD, 0)

\* C18: for the GreenSocket and for the duck-socket alike the closed flag is
\* terminal and every suspending operation honours it: a call that the hub
\* ends with the closed signal leaves the wrapper's flag set, a flag that was
\* set when a call began is still set, and such a call never contacts the
\* hub: where it would suspend it ends with the closed error.
C18_ClosedFlagTerminal ==
  /\ (pc = "idle" /\ call.op \in SockOps \ {"connect_ex"} /\ result = OnClosed(call.op))
       => sock_closed
  /\ call.closed => (sock_closed /\ pc # "suspended" /\ obs.nSusp = 0)
  /\ (duck_pc = "idle" /\ duck_result = Raise("IOClosed", "")) => duck_closed
  /\ duck_call.closed =>
       (duck_closed /\ duck_pc # "suspended" /\ duck_obs.nHub = 0)

\* The places of x in the calls made for the descriptor.
Places(x) == {i \in 1..Len(duck_log) : duck_log[i] = x}

\* A method that tears the descriptor down has just ended.
TornDown == duck_oserr # ""

\* C20: the life of a duck-socket.  Construction tells the hub of the
\* descriptor before anything else is done with it and leaves closed false
\* and the reference count 0; every teardown tells the hub of the close, then
\* marks the wrapper closed, then releases the descriptor, and does not
\* raise when the release fails; the hub is never told of a close of the
\* descriptor after the descriptor has been released.
C20_DuckLifecycleOrder ==
  /\ duck_log # <<>> => (duck_log[1] = "notify_opened" /\ Places("notify_opened") = {1})
  /\ duck_hist = <<>> => (~duck_closed /\ duck_refcount = 0)
  /\ \A i \in Places("notify_close") :
       /\ i + 2 <= Len(duck_log)
       /\ duck_log[i + 1] = "_mark_as_closed"
       /\ duck_log[i + 2] = "os.close"
  /\ \A i \in Places("os.close") : i > 2 /\ duck_log[i - 2] = "notify_close"
  /\ Places("os.close") # {} => duck_closed
  /\ TornDown => duck_result = Return("None", 0)
  /\ \A i \in Places("os.close") : \A j \in Places("notify_close") : j < i

\* How a call of recvfrom, recvfrom_into, recv_into or sendto came to its end.
NeverWaited == obs.nSusp = 0 /\ obs.nOs = 0
WaitCutShort == obs.nSusp = 1 /\ obs.nOs = 0
WaitedThenCalled == obs.nSusp = 1 /\ obs.nOs = 1
AnswerHandedBack ==
  IF obs.last = ENONE
  THEN result.kind = "return"
       /\ (call.op = "sendto" => result = Return("sent", call.len_data))
  ELSE result = Raise("socket.error", obs.last)

\* C21: in suspending mode a call of recvfrom, recvfrom_into or recv_into
\* suspends exactly once, with the logical timeout, and then makes exactly
\* one OS call whose answer it hands back as it is, a "would block" error
\* included; sendto does the same with no timeout.  The OS call is left out
\* only when the one suspension ends with a timeout or the closed signal,
\* and a wrapper already marked closed raises IOClosed before suspending.
C21_OneWaitOneCall ==
  (call.op \in WaitFirstOps /\ ~call.nb) =>
    /\ pc = "suspended" =>
         /\ WaitCutShort
         /\ tramp = (IF call.op = "sendto" THEN None ELSE call.T)
    /\ pc = "idle" =>
         \/ NeverWaited /\ call.closed /\ result = Raise("IOClosed", "")
         \/ /\ WaitCutShort /\ ~call.closed
            /\ \/ result = Raise("IOClosed", "") /\ sock_closed
               \/ /\ result = Raise("socket.timeout", "timed out")
                  /\ call.T # None /\ call.op # "sendto"
         \/ WaitedThenCalled /\ ~call.closed /\ AnswerHandedBack

C21_Witness ==
  /\ Ended("recvfrom") /\ ~call.nb /\ call.T = Some(1)
  /\ obs.nSusp = 1 /\ obs.nOs = 1 /\ obs.nWB = 1 /\ obs.last = EAGAIN
  /\ result = Raise("socket.error", EAGAIN)

\* The hub has been told of the close of the green socket's descriptor.
SockCloseNoticed == \E i \in 1..Len(sock_log) : sock_log[i] = "notify_close"

\* C22: once close() has been called on a GreenSocket the hub has been told
\* of the close of its descriptor, so that a task suspended on it with no
\* timeout is resumed with the closed signal; and a Descriptor Duck-Socket
\* whose descriptor has been released has told the hub of the close.
C22_CloseNotifiesHub ==
  /\ Count(sock_log, "sock.close") > 0 => SockCloseNoticed
  /\ Releases > 0 => CloseNotices > 0

\* C23: in every state of a GreenSocket, from its construction on and
\* through setblocking, settimeout and dup, act_non_blocking is set exactly
\* when the logical timeout is 0; the wrapper that dup returns has the
\* logical timeout and the act_non_blocking of the wrapper it was made from.
C23_FlagIffZeroTimeout ==
  /\ act_non_blocking <=> (gettimeout(timeout) = Some(0))
  /\ Ended("dup") =>
       /\ newsock # None
       /\ newsock[1].timeout = gettimeout(timeout)
       /\ newsock[1].act_non_blocking = act_non_blocking

\* The operations that retry their OS call after each suspension.
TimedRetryOps == {"recv", "accept", "send"}

\* C24 (as stated): with a finite logical timeout T a call of recv, accept
\* or send has one deadline, T after its start, as connect has: no
\* suspension of the call is asked to last beyond it.
C24_AbsoluteDeadline ==
  (pc = "suspended" /\ call.op \in TimedRetryOps /\ ~call.nb /\ call.T # None)
    => (tramp # None /\ now + tramp[1] <= call.start + call.T[1])

\* C24 (amended): every suspension of a call of recv, accept or send is
\* asked to last the whole logical timeout T, counted from that suspension
\* and not from the start of the call; the call raises the timeout error
\* only with a finite T, after a suspension, and no earlier than T after it
\* started.
C24_TimeoutPerSuspension ==
  (call.op \in TimedRetryOps /\ ~call.nb) =>
    /\ pc = "suspended" => tramp = call.T
    /\ (pc = "idle" /\ result = Raise("socket.timeout", "timed out")) =>
         /\ call.T # None
         /\ obs.nSusp >= 1
         /\ now >= call.start + call.T[1]

\* A recv with timeout 1 started at 0 is woken once, is told "would block"
\* again and times out only at 2.
C24_Witness ==
  /\ Ended("recv") /\ ~call.nb /\ call.T = Some(1) /\ call.start = 0
  /\ result = Raise("socket.timeout", "timed out")
  /\ obs.nSusp = 2 /\ obs.nWB = 2 /\ now = 2


====
